---- MODULE Spec2Model ----
(***************************************************************************)
(* A model of jsonfilter (src/jsonfilter/match.py): the MongoDB-style      *)
(* filter engine behind the jf command.                                    *)
(*                                                                         *)
(* Python values are tagged records, one tag per Python type:              *)
(*   [int |-> n]  [bool |-> b]  [null |-> TRUE] (None)  [str |-> chars]    *)
(*   [list |-> <<v1, ..., vn>>]                                            *)
(*   [dict |-> f]   a document mapping, f a function from keys to values   *)
(*   [map |-> <<<<k1, v1>>, ..., <<kn, vn>>>>]  a filter mapping, kept as  *)
(*        its items() in insertion order (filters are only ever iterated). *)
(* A string is the tuple of its characters, so that split, join, str, len  *)
(* and re.match are computed and not assumed.                              *)
(***************************************************************************)
EXTENDS Integers, Sequences, FiniteSets, TLC

VARIABLES
    json,          \* match_json: the json argument
    mongo_filter,  \* match_json: the mongo_filter argument
    regexps,       \* the module's regex cache: the pattern strings compiled so far
    pc,            \* match_json: "start", "iter", "done" or "raised"
    data,          \* make_filter_chain: the list the filter object iterates
    idx,           \* the filter object's position in data (1-based)
    fset,          \* the list that list(fset) has built so far
    ret,           \* what match_json returned (a one-element tuple), <<>> before
    err,           \* the exception that left match_json, "none" otherwise
    gv_path,       \* get_values call: path
    gv_data,       \* get_values call: data
    gv_out,        \* get_values call: outcome, [raise, ret]
    gv_pc,         \* get_values call: "call" or "returned"
    empty,         \* flatten's default argument: one list for the whole process
    fl_items,      \* flatten call: items
    fl_ret,        \* flatten call: the returned list
    fl_pc          \* flatten call: "idle" before the first call, then "returned"

vars == <<json, mongo_filter, regexps, pc, data, idx, fset, ret, err,
          gv_path, gv_data, gv_out, gv_pc, empty, fl_items, fl_ret, fl_pc>>

match_vars == <<json, mongo_filter, regexps, pc, data, idx, fset, ret, err>>
gv_vars == <<gv_path, gv_data, gv_out, gv_pc>>
fl_vars == <<empty, fl_items, fl_ret, fl_pc>>

----------------------------------------------------------------------------
(* Python values *)

JInt(n) == [int |-> n]
JBool(b) == [bool |-> b]
JStr(s) == [str |-> s]
JList(l) == [list |-> l]
JDict(f) == [dict |-> f]
JMap(items) == [map |-> items]
None == [null |-> TRUE]

IsInt(v) == DOMAIN v = {"int"}
IsBool(v) == DOMAIN v = {"bool"}
IsNum(v) == IsInt(v) \/ IsBool(v)
IsStr(v) == DOMAIN v = {"str"}
IsList(v) == DOMAIN v = {"list"}
IsDict(v) == DOMAIN v = {"dict"}
IsMap(v) == DOMAIN v = {"map"}
IsNone(v) == DOMAIN v = {"null"}

\* NOT_FOUND is a module-level string object and is only ever tested with
\* `is`: no value of a document is that object, so it is a tag of its own.
NOT_FOUND == [notfound |-> TRUE]

\* bool is a subclass of int: True == 1, False == 0.
Num(v) == IF IsBool(v) THEN (IF v.bool THEN 1 ELSE 0) ELSE v.int

\* Python's == on the values above.
RECURSIVE PyEq(_, _)
PyEq(x, y) ==
    IF IsNum(x) /\ IsNum(y) THEN Num(x) = Num(y)
    ELSE IF DOMAIN x # DOMAIN y THEN FALSE
    ELSE IF IsList(x) THEN
        /\ Len(x.list) = Len(y.list)
        /\ \A i \in 1..Len(x.list) : PyEq(x.list[i], y.list[i])
    ELSE IF IsDict(x) THEN
        /\ DOMAIN x.dict = DOMAIN y.dict
        /\ \A k \in DOMAIN x.dict : PyEq(x.dict[k], y.dict[k])
    ELSE x = y

\* Code points, as far as the ordering of the strings used here needs them.
Alphabet == <<" ", "$", "'", "(", ")", ",", "-", ".", "0", "1", "2", "3", "4",
              "5", "6", "7", "8", "9", ":", "F", "J", "M", "N", "T", "[", "]",
              "^", "a", "b", "c", "d", "e", "f", "g", "h", "i", "j", "k", "l",
              "m", "n", "o", "p", "q", "r", "s", "t", "u", "v", "w", "x", "y",
              "z", "{", "}">>
Ord(c) == CHOOSE i \in 1..Len(Alphabet) : Alphabet[i] = c

\* s < t, s and t character tuples (Python's str.__lt__).
RECURSIVE StrLess(_, _)
StrLess(s, t) ==
    IF t = <<>> THEN FALSE
    ELSE IF s = <<>> THEN TRUE
    ELSE IF Head(s) = Head(t) THEN StrLess(Tail(s), Tail(t))
    ELSE Ord(Head(s)) < Ord(Head(t))

\* The outcome of Python's ordering of x and y: "lt", "eq", "gt", or "err"
\* where < raises TypeError (unorderable types).
RECURSIVE PyCmp(_, _)
PyCmp(x, y) ==
    IF IsNum(x) /\ IsNum(y) THEN
        (IF Num(x) < Num(y) THEN "lt" ELSE IF Num(x) = Num(y) THEN "eq" ELSE "gt")
    ELSE IF IsStr(x) /\ IsStr(y) THEN
        (IF x.str = y.str THEN "eq" ELSE IF StrLess(x.str, y.str) THEN "lt" ELSE "gt")
    ELSE IF IsList(x) /\ IsList(y) THEN
        LET n == IF Len(x.list) < Len(y.list) THEN Len(x.list) ELSE Len(y.list)
            diff == {i \in 1..n : ~PyEq(x.list[i], y.list[i])}
        IN  IF diff = {} THEN
                (IF Len(x.list) < Len(y.list) THEN "lt"
                 ELSE IF Len(x.list) = Len(y.list) THEN "eq" ELSE "gt")
            ELSE LET i == CHOOSE j \in diff : \A k \in diff : j <= k
                 IN  PyCmp(x.list[i], y.list[i])
    ELSE "err"

\* bool(v)
Truthy(v) ==
    IF IsNum(v) THEN Num(v) # 0
    ELSE IF IsNone(v) THEN FALSE
    ELSE IF IsStr(v) THEN v.str # <<>>
    ELSE IF IsList(v) THEN v.list # <<>>
    ELSE IF IsDict(v) THEN DOMAIN v.dict # {}
    ELSE IF IsMap(v) THEN v.map # <<>>
    ELSE TRUE

\* len(v): -1 stands for TypeError (object has no len()).
PyLen(v) ==
    IF IsStr(v) THEN Len(v.str)
    ELSE IF IsList(v) THEN Len(v.list)
    ELSE IF IsDict(v) THEN Cardinality(DOMAIN v.dict)
    ELSE IF IsMap(v) THEN Len(v.map)
    ELSE -1

\* hash(v) is defined: lists and dicts are unhashable.
Hashable(v) == ~(IsList(v) \/ IsDict(v) \/ IsMap(v))

Digits == <<"0", "1", "2", "3", "4", "5", "6", "7", "8", "9">>

\* str(n) of an int n.
RECURSIVE IntStr(_)
IntStr(n) ==
    IF n < 0 THEN <<"-">> \o IntStr(-n)
    ELSE IF n < 10 THEN <<Digits[n + 1]>>
    ELSE IntStr(n \div 10) \o <<Digits[(n % 10) + 1]>>

\* The keys of a dict in the order str() shows them. A document of the model
\* carries no insertion order; its keys are taken in ascending order.
RECURSIVE KeyOrder(_)
KeyOrder(S) ==
    IF S = {} THEN <<>>
    ELSE LET k == CHOOSE a \in S : \A b \in S : a = b \/ StrLess(a, b)
         IN  <<k>> \o KeyOrder(S \ {k})

\* repr(v), which str() uses for the elements of a list or dict.
RECURSIVE PyRepr(_)
RECURSIVE ReprItems(_, _)
ReprItems(l, i) ==
    IF i > Len(l) THEN <<>>
    ELSE (IF i > 1 THEN <<",", " ">> ELSE <<>>) \o PyRepr(l[i]) \o ReprItems(l, i + 1)
RECURSIVE ReprPairs(_, _, _)
ReprPairs(f, ks, i) ==
    IF i > Len(ks) THEN <<>>
    ELSE (IF i > 1 THEN <<",", " ">> ELSE <<>>)
         \o <<"'">> \o ks[i] \o <<"'", ":", " ">> \o PyRepr(f[ks[i]])
         \o ReprPairs(f, ks, i + 1)
PyRepr(v) ==
    IF IsInt(v) THEN IntStr(v.int)
    ELSE IF IsBool(v) THEN (IF v.bool THEN <<"T", "r", "u", "e">>
                            ELSE <<"F", "a", "l", "s", "e">>)
    ELSE IF IsNone(v) THEN <<"N", "o", "n", "e">>
    ELSE IF IsStr(v) THEN <<"'">> \o v.str \o <<"'">>
    ELSE IF IsList(v) THEN <<"[">> \o ReprItems(v.list, 1) \o <<"]">>
    ELSE IF IsDict(v) THEN
        <<"{">> \o ReprPairs(v.dict, KeyOrder(DOMAIN v.dict), 1) \o <<"}">>
    ELSE <<>>

\* str(v)
PyStr(v) == IF IsStr(v) THEN v.str ELSE PyRepr(v)

\* path.split('.')
RECURSIVE Split(_)
Split(s) ==
    LET dots == {i \in 1..Len(s) : s[i] = "."}
    IN  IF dots = {} THEN <<s>>
        ELSE LET i == CHOOSE j \in dots : \A k \in dots : j <= k
             IN  <<SubSeq(s, 1, i - 1)>> \o Split(SubSeq(s, i + 1, Len(s)))

\* '.'.join(parts)
RECURSIVE Join(_)
Join(parts) ==
    IF parts = <<>> THEN <<>>
    ELSE IF Len(parts) = 1 THEN parts[1]
    ELSE parts[1] \o <<".">> \o Join(Tail(parts))

----------------------------------------------------------------------------
(* get_values *)

\* The outcome of a call: raise is "none" or the exception's class, ret the
\* returned object (None when the call raised).
Returned(v) == [raise |-> "none", ret |-> v]
Raised(e) == [raise |-> e, ret |-> None]

RECURSIVE get_values(_, _)
RECURSIVE GetValuesLoop(_, _, _)
RECURSIVE GetValuesStep(_, _, _)
RECURSIVE GetValuesExtend(_, _, _, _)
RECURSIVE Extend(_, _, _, _, _)

\* The loop `for part_data in step` of get_values, from element i on, ret
\* being the list built so far. extend(None) raises TypeError.
GetValuesExtend(next_path_parts, step, i, acc) ==
    IF i > Len(step) THEN Returned(JList(acc))
    ELSE IF ~IsDict(step[i]) THEN GetValuesExtend(next_path_parts, step, i + 1, acc)
    ELSE Extend(get_values(next_path_parts, step[i]), next_path_parts, step, i, acc)

\* ret.extend(r), r the outcome of the recursive call, and the rest of the loop.
Extend(r, next_path_parts, step, i, acc) ==
    IF r.raise # "none" THEN r
    ELSE IF ~IsList(r.ret) THEN Raised("TypeError")
    ELSE GetValuesExtend(next_path_parts, step, i + 1, acc \o r.ret.list)

\* The loop over path_parts from part path_num (1-based) on; step is a dict.
\* Running off the end of the loop returns None.
GetValuesLoop(path_parts, path_num, step) ==
    IF path_num > Len(path_parts) THEN Returned(None)
    ELSE IF path_parts[path_num] \notin DOMAIN step.dict THEN Returned(JList(<<>>))
    ELSE GetValuesStep(path_parts, path_num, step.dict[path_parts[path_num]])

\* The body of the loop after step = step[path_part].
GetValuesStep(path_parts, path_num, step) ==
    IF IsList(step) THEN
        IF path_num < Len(path_parts) THEN
            GetValuesExtend(Join(SubSeq(path_parts, path_num + 1, Len(path_parts))),
                            step.list, 1, <<>>)
        ELSE Returned(step)
    ELSE IF ~IsDict(step) THEN
        IF path_num < Len(path_parts) THEN Returned(JList(<<>>))
        ELSE Returned(JList(<<step>>))
    ELSE GetValuesLoop(path_parts, path_num + 1, step)

get_values(path, d) ==
    IF ~IsDict(d) THEN Raised("JFError")
    ELSE GetValuesLoop(Split(path), 1, d)

----------------------------------------------------------------------------
(* The operator table *)

op_gt == <<"$", "g", "t">>
op_gte == <<"$", "g", "t", "e">>
op_eq == <<"$", "e", "q">>
op_lt == <<"$", "l", "t">>
op_lte == <<"$", "l", "t", "e">>
op_ne == <<"$", "n", "e">>
op_in == <<"$", "i", "n">>
op_nin == <<"$", "n", "i", "n">>
op_exists == <<"$", "e", "x", "i", "s", "t", "s">>
op_regex == <<"$", "r", "e", "g", "e", "x">>
op_size == <<"$", "s", "i", "z", "e">>
op_elemMatch == <<"$", "e", "l", "e", "m", "M", "a", "t", "c", "h">>
key_not == <<"$", "n", "o", "t">>
key_and == <<"$", "a", "n", "d">>
key_or == <<"$", "o", "r">>
key_nor == <<"$", "n", "o", "r">>

\* The outcome of evaluating a predicate: raise is "none" or the exception's
\* class, val the truth of the value returned, cache the regex cache after.
Out(raise, val, cache) == [raise |-> raise, val |-> val, cache |-> cache]

\* The elements iterating v yields, as a tuple; v is a list or a str.
Iterable(v) == IsList(v) \/ IsStr(v)
Elements(v) ==
    IF IsList(v) THEN v.list ELSE [i \in 1..Len(v.str) |-> JStr(<<v.str[i]>>)]

\* `x in y` for x not a list: "T", "F", or "err" for TypeError. A filter
\* operand y is a scalar or a list here (a mapping never reaches a leaf).
PyIn(x, y) ==
    IF IsList(y) THEN
        (IF \E i \in 1..Len(y.list) : PyEq(x, y.list[i]) THEN "T" ELSE "F")
    ELSE IF IsStr(y) /\ IsStr(x) THEN
        (IF \E i \in 0..(Len(y.str) - Len(x.str)) :
                SubSeq(y.str, i + 1, i + Len(x.str)) = x.str
         THEN "T" ELSE "F")
    ELSE "err"

\* `set(x) & set(y)` for a list x: "T" when the intersection is non-empty,
\* "F" when it is empty, "err" where set() raises TypeError.
PySetsMeet(x, y) ==
    IF \E i \in 1..Len(x.list) : ~Hashable(x.list[i]) THEN "err"
    ELSE IF ~Iterable(y) THEN "err"
    ELSE IF \E i \in 1..Len(Elements(y)) : ~Hashable(Elements(y)[i]) THEN "err"
    ELSE IF \E i \in 1..Len(x.list), j \in 1..Len(Elements(y)) :
                PyEq(x.list[i], Elements(y)[j])
         THEN "T" ELSE "F"

\* The patterns of the model are literal text with an optional leading "^",
\* and text holding a parenthesis, which re.compile rejects (it is unbalanced
\* in every pattern used).
ReCompiles(p) == IsStr(p) /\ \A i \in 1..Len(p.str) : p.str[i] \notin {"(", ")"}

\* re.match(pattern, s): the pattern's text is a prefix of s.
ReMatch(p, s) ==
    LET lit == IF p # <<>> /\ Head(p) = "^" THEN Tail(p) ELSE p
    IN  Len(lit) <= Len(s) /\ SubSeq(s, 1, Len(lit)) = lit

exp_regexp(search_string, regex_string, cache) ==
    IF search_string = NOT_FOUND THEN Out("none", FALSE, cache)
    ELSE IF ~Hashable(regex_string) THEN Out("RegexpError", FALSE, cache)
    ELSE IF regex_string \in cache THEN
        Out("none", ReMatch(regex_string.str, PyStr(search_string)), cache)
    ELSE IF ~ReCompiles(regex_string) THEN Out("RegexpError", FALSE, cache)
    ELSE Out("none", ReMatch(regex_string.str, PyStr(search_string)),
             cache \cup {regex_string})

\* elem_match with an operand that is no function (every operand a filter
\* can give it): the first element's call raises TypeError.
elem_match(values, filter_expr, cache) ==
    IF IsDict(values) THEN
        (IF DOMAIN values.dict = {} THEN Out("none", FALSE, cache)
         ELSE Out("TypeError", FALSE, cache))
    ELSE IF ~Iterable(values) THEN Out("TypeError", FALSE, cache)
    ELSE IF Elements(values) = <<>> THEN Out("none", FALSE, cache)
    ELSE Out("TypeError", FALSE, cache)

\* x is not NOT_FOUND and x <op> y, for the ordered comparisons.
OrderedAnswer(c, accept, cache) ==
    IF c = "err" THEN Out("TypeError", FALSE, cache) ELSE Out("none", c \in accept, cache)

Ordered(x, y, accept, cache) ==
    IF x = NOT_FOUND THEN Out("none", FALSE, cache)
    ELSE OrderedAnswer(PyCmp(x, y), accept, cache)

\* The outcome of a test that gave r ("T", "F" or "err"), true when r = want.
Answer(r, want, cache) ==
    IF r = "err" THEN Out("TypeError", FALSE, cache) ELSE Out("none", r = want, cache)

exp_in(x, y, cache) ==
    IF x = NOT_FOUND THEN Out("none", FALSE, cache)
    ELSE Answer(IF IsList(x) THEN PySetsMeet(x, y) ELSE PyIn(x, y), "T", cache)

exp_nin(x, y, cache) ==
    IF x = NOT_FOUND THEN Out("none", FALSE, cache)
    ELSE Answer(IF IsList(x) THEN PySetsMeet(x, y) ELSE PyIn(x, y), "F", cache)

exp_exists(x, y, cache) ==
    Out("none", IF Truthy(y) THEN x # NOT_FOUND ELSE x = NOT_FOUND, cache)

SizeAnswer(n, y, cache) ==
    IF n < 0 THEN Out("TypeError", FALSE, cache) ELSE Out("none", PyEq(JInt(n), y), cache)

exp_size(x, y, cache) ==
    IF x = NOT_FOUND THEN Out("none", FALSE, cache)
    ELSE SizeAnswer(PyLen(x), y, cache)

exp_eq(x, y, cache) == Out("none", x # NOT_FOUND /\ PyEq(x, y), cache)

exp_ne(x, y, cache) == Out("none", x # NOT_FOUND /\ ~PyEq(x, y), cache)

\* expressions.get(exp_name, expressions['$eq'])(x, y)
expressions(exp_name, x, y, cache) ==
    IF exp_name = op_gt THEN Ordered(x, y, {"gt"}, cache)
    ELSE IF exp_name = op_gte THEN Ordered(x, y, {"gt", "eq"}, cache)
    ELSE IF exp_name = op_lt THEN Ordered(x, y, {"lt"}, cache)
    ELSE IF exp_name = op_lte THEN Ordered(x, y, {"lt", "eq"}, cache)
    ELSE IF exp_name = op_ne THEN exp_ne(x, y, cache)
    ELSE IF exp_name = op_in THEN exp_in(x, y, cache)
    ELSE IF exp_name = op_nin THEN exp_nin(x, y, cache)
    ELSE IF exp_name = op_exists THEN exp_exists(x, y, cache)
    ELSE IF exp_name = op_regex THEN exp_regexp(x, y, cache)
    ELSE IF exp_name = op_size THEN exp_size(x, y, cache)
    ELSE IF exp_name = op_elemMatch THEN elem_match(x, y, cache)
    ELSE exp_eq(x, y, cache)

----------------------------------------------------------------------------
(* gen_lambda: gen_lambda(filter_key, filter_value, exp_name)(x), compiled   *)
(* and applied in one. The comprehensions build their lists in full (there   *)
(* is no short circuit), in order, and the first exception ends them.        *)

Items(filter_value) == filter_value.map

RECURSIVE gen_lambda(_, _, _, _, _)
RECURSIVE EvalAll(_, _, _)
RECURSIVE EvalGroups(_, _, _)
RECURSIVE EvalValues(_, _, _, _)
RECURSIVE EvalAllRest(_, _, _)
RECURSIVE EvalGroupsRest(_, _, _)
RECURSIVE EvalValuesRest(_, _, _, _)
RECURSIVE ElemMatchLoop(_, _, _, _)
RECURSIVE ElemMatchRest(_, _, _, _)

Nil(cache) == [raise |-> "none", vals |-> <<>>, cache |-> cache]
Stop(raise, cache) == [raise |-> raise, vals |-> <<>>, cache |-> cache]
Prepend(v, rest) == [raise |-> rest.raise, vals |-> <<v>> \o rest.vals, cache |-> rest.cache]

AllTrue(vals) == \A i \in 1..Len(vals) : vals[i]
AnyTrue(vals) == \E i \in 1..Len(vals) : vals[i]

\* all(r), any(r) and `not`, of a list r built without or with an exception.
AllOf(r) == Out(r.raise, r.raise = "none" /\ AllTrue(r.vals), r.cache)
AnyOf(r) == Out(r.raise, r.raise = "none" /\ AnyTrue(r.vals), r.cache)
Negate(o) == Out(o.raise, o.raise = "none" /\ ~o.val, o.cache)

\* The calls gen_lambda(k, v) for k, v in f.items().
EntryCalls(f) == [i \in 1..Len(Items(f)) |-> <<Items(f)[i][1], Items(f)[i][2], op_eq>>]

\* [gen_lambda(k, v, e)(x) for <<k, v, e>> in calls]: the list of truth
\* values, or the exception of the first call that raises.
EvalAll(calls, x, cache) ==
    IF calls = <<>> THEN Nil(cache)
    ELSE EvalAllRest(gen_lambda(Head(calls)[1], Head(calls)[2], Head(calls)[3], x, cache),
                     Tail(calls), x)

EvalAllRest(r, calls, x) ==
    IF r.raise # "none" THEN Stop(r.raise, r.cache)
    ELSE Prepend(r.val, EvalAll(calls, x, r.cache))

\* [all([gen_lambda(k, v)(x) for k, v in f.items()]) for f in fs]; an f that
\* is no mapping has no items(): AttributeError.
EvalGroups(fs, x, cache) ==
    IF fs = <<>> THEN Nil(cache)
    ELSE IF ~IsMap(Head(fs)) THEN Stop("AttributeError", cache)
    ELSE EvalGroupsRest(AllOf(EvalAll(EntryCalls(Head(fs)), x, cache)), Tail(fs), x)

EvalGroupsRest(r, fs, x) ==
    IF r.raise # "none" THEN Stop(r.raise, r.cache)
    ELSE Prepend(r.val, EvalGroups(fs, x, r.cache))

\* [exp(val, filter_value) for val in values]
EvalValues(exp_name, values, filter_value, cache) ==
    IF values = <<>> THEN Nil(cache)
    ELSE EvalValuesRest(expressions(exp_name, Head(values), filter_value, cache),
                        exp_name, Tail(values), filter_value)

EvalValuesRest(r, exp_name, values, filter_value) ==
    IF r.raise # "none" THEN Stop(r.raise, r.cache)
    ELSE Prepend(r.val, EvalValues(exp_name, values, filter_value, r.cache))

\* NotRule with `not all` in place of `not any`.
NotRule_NotAll(filter_value, x, cache) ==
    Negate(AllOf(EvalAll(EntryCalls(filter_value), x, cache)))

\* filter_key == '$not' and type(filter_value) == dict
NotRule(filter_value, x, cache) ==
    Negate(AnyOf(EvalAll(EntryCalls(filter_value), x, cache)))

\* The calls gen_lambda(filter_key, filter_rule, exp_name) for exp_name,
\* filter_rule in filter_value.items().
OperatorCalls(filter_key, filter_value) ==
    [i \in 1..Len(Items(filter_value)) |->
        <<filter_key, Items(filter_value)[i][2], Items(filter_value)[i][1]>>]

\* type(filter_value) == dict: every key of the mapping is an operator name
\* applied to the same field.
OperatorsRule(filter_key, filter_value, x, cache) ==
    AllOf(EvalAll(OperatorCalls(filter_key, filter_value), x, cache))

\* filter_key == '$and' and type(filter_value) == list
AndRule(filter_value, x, cache) ==
    AllOf(EvalGroups(filter_value.list, x, cache))

\* OrRule with the outer any() turned into all().
OrRule_All(filter_value, x, cache) ==
    AllOf(EvalGroups(filter_value.list, x, cache))

\* filter_key == '$or' and type(filter_value) == list
OrRule(filter_value, x, cache) ==
    AnyOf(EvalGroups(filter_value.list, x, cache))

\* filter_key == '$nor' and type(filter_value) == list
NorRule(filter_value, x, cache) ==
    Negate(AnyOf(EvalGroups(filter_value.list, x, cache)))

\* elem_match(x, filter_func), filter_func the all() over filter_value's
\* entries: the loop over x's elements from element i on.
ElemMatchLoop(filter_value, elems, i, cache) ==
    IF i > Len(elems) THEN Out("none", FALSE, cache)
    ELSE ElemMatchRest(AllOf(EvalAll(EntryCalls(filter_value), elems[i], cache)),
                       filter_value, elems, i)

ElemMatchRest(r, filter_value, elems, i) ==
    IF r.raise # "none" \/ r.val THEN r
    ELSE ElemMatchLoop(filter_value, elems, i + 1, r.cache)

\* The keys iterating a dict yields, as strings.
Keys(d) == [i \in 1..Cardinality(DOMAIN d.dict) |-> JStr(KeyOrder(DOMAIN d.dict)[i])]

\* filter_key == '$elemMatch' and type(filter_value) == dict: exp(x,
\* filter_func), exp being what exp_name names. The rule for a dict
\* filter_value comes first in gen_lambda, so this one is never taken.
ElemMatchRule(filter_value, exp_name, x, cache) ==
    IF exp_name # op_elemMatch
    THEN expressions(exp_name, x, [func |-> filter_value], cache)
    ELSE IF ~(IsDict(x) \/ Iterable(x)) THEN Out("TypeError", FALSE, cache)
    ELSE ElemMatchLoop(filter_value, IF IsDict(x) THEN Keys(x) ELSE Elements(x), 1, cache)

\* any([exp(val, filter_value) for val in values]), values the outcome of
\* get_values. Iterating None raises TypeError.
AnyValue(gv, filter_value, exp_name, cache) ==
    IF gv.raise # "none" THEN Out(gv.raise, FALSE, cache)
    ELSE IF ~IsList(gv.ret) THEN Out("TypeError", FALSE, cache)
    ELSE AnyOf(EvalValues(exp_name, gv.ret.list, filter_value, cache))

\* The default rule: any([exp(val, filter_value) for val in
\* get_values(filter_key, x)]).
LeafRule(filter_key, filter_value, exp_name, x, cache) ==
    AnyValue(get_values(filter_key, x), filter_value, exp_name, cache)

gen_lambda(filter_key, filter_value, exp_name, x, cache) ==
    IF filter_key = key_not /\ IsMap(filter_value)
    THEN NotRule(filter_value, x, cache)
    ELSE IF IsMap(filter_value)
    THEN OperatorsRule(filter_key, filter_value, x, cache)
    ELSE IF filter_key = key_and /\ IsList(filter_value)
    THEN AndRule(filter_value, x, cache)
    ELSE IF filter_key = key_or /\ IsList(filter_value)
    THEN OrRule(filter_value, x, cache)
    ELSE IF filter_key = key_nor /\ IsList(filter_value)
    THEN NorRule(filter_value, x, cache)
    ELSE IF filter_key = op_elemMatch /\ IsMap(filter_value)
    THEN ElemMatchRule(filter_value, exp_name, x, cache)
    ELSE LeafRule(filter_key, filter_value, exp_name, x, cache)

\* make_filter_chain with any() over the top-level entries.
make_filter_chain_Any(filters, x, cache) ==
    AnyOf(EvalAll(EntryCalls(filters), x, cache))

\* make_filter_chain's lambda: all([gen_lambda(field_name, filter_value)(x)
\* for field_name, filter_value in filters.items()]).
make_filter_chain(filters, x, cache) ==
    AllOf(EvalAll(EntryCalls(filters), x, cache))

----------------------------------------------------------------------------
(* flatten *)

\* flatten(items, empty): the list `empty` after the loop over items.
RECURSIVE flatten(_, _)
flatten(items, acc) ==
    IF items = <<>> THEN acc
    ELSE IF IsList(Head(items))
    THEN flatten(Tail(items), flatten(Head(items).list, acc))
    ELSE flatten(Tail(items), Append(acc, Head(items)))

----------------------------------------------------------------------------
(* The inputs *)

MaxDocs == 2      \* longest list of documents handed to match_json
MaxFlat == 5      \* flatten is not called once its default list is this long

s_a == <<"a">>
s_b == <<"b">>
s_c == <<"c">>
s_x == <<"x">>
s_y == <<"y">>
s_ab == <<"a", "b">>
s_a_b == <<"a", ".", "b">>
s_a_c == <<"a", ".", "c">>
s_a_b_c == <<"a", ".", "b", ".", "c">>
s_x_y == <<"x", ".", "y">>
s_age == <<"a", "g", "e">>
s_name == <<"n", "a", "m", "e">>
s_tags == <<"t", "a", "g", "s">>
s_role == <<"r", "o", "l", "e">>
s_items == <<"i", "t", "e", "m", "s">>
s_items_name == <<"i", "t", "e", "m", "s", ".", "n", "a", "m", "e">>
s_errors == <<"e", "r", "r", "o", "r", "s">>
s_success == <<"s", "u", "c", "c", "e", "s", "s">>
s_old == <<"o", "l", "d">>
s_John == <<"J", "o", "h", "n">>
s_aJohn == <<"a", "J", "o", "h", "n">>
s_Jo == <<"J", "o">>
s_caretJo == <<"^", "J", "o">>
s_paren == <<"(">>
op_bogus == <<"$", "b", "o", "g", "u", "s">>

Doc1(k, v) == JDict(k :> v)
Doc2(k1, v1, k2, v2) == JDict((k1 :> v1) @@ (k2 :> v2))
Filter1(k, v) == JMap(<< <<k, v>> >>)
Filter2(k1, v1, k2, v2) == JMap(<< <<k1, v1>>, <<k2, v2>> >>)

d_failed == Doc2(s_success, JBool(FALSE), s_errors, JList(<<JStr(s_a), JStr(s_b)>>))
d_passed == Doc2(s_success, JBool(TRUE), s_errors, JList(<<>>))
d_one_error == Doc2(s_success, JBool(FALSE), s_errors, JList(<<JStr(s_ab)>>))
d_items == Doc1(s_items, JList(<<Doc1(s_name, JStr(s_x))>>))
d_items_y == Doc1(s_items, JList(<<Doc1(s_name, JStr(s_y)), JStr(s_x)>>))
d_tags == Doc1(s_tags, JList(<<JStr(s_b), JStr(s_c)>>))
d_tags_c == Doc1(s_tags, JList(<<JStr(s_c)>>))
d_tags_nested == Doc1(s_tags, JList(<<JList(<<JStr(s_b), JStr(s_c)>>)>>))
d_role_a == Doc1(s_role, JStr(s_a))
d_role_c == Doc1(s_role, JStr(s_c))
d_a1b2 == Doc2(s_a, JInt(1), s_b, JInt(2))
d_a1 == Doc1(s_a, JInt(1))
d_b2 == Doc1(s_b, JInt(2))
d_a1b3 == Doc2(s_a, JInt(1), s_b, JInt(3))
d_none == JDict(<<>>)
d_John == Doc2(s_age, JInt(11), s_name, JStr(s_John))
d_x == Doc2(s_age, JInt(5), s_name, JStr(s_x))
d_x11 == Doc2(s_age, JInt(11), s_name, JStr(s_x))
d_old == Doc2(s_age, JStr(s_old), s_name, JStr(s_aJohn))
d_nested == Doc1(s_a, Doc1(s_b, JInt(1)))
d_list == Doc1(s_a, JList(<<Doc1(s_b, JInt(1)), Doc1(s_b, JInt(2))>>))
d_mixed == Doc1(s_a, JList(<<JInt(1), Doc1(s_b, JInt(2)), Doc1(s_c, JInt(3))>>))
d_deep == Doc1(s_a, JList(<<Doc1(s_b, Doc1(s_c, JInt(1)))>>))
d_deeper == Doc1(s_a, Doc1(s_b, Doc1(s_c, None)))
d_lists == Doc1(s_a, JList(<<Doc1(s_b, JList(<<JInt(1), JInt(2)>>)),
                             Doc1(s_b, JList(<<JInt(3)>>))>>))

\* The mapping documents.
Docs == {d_failed, d_passed, d_one_error, d_items, d_items_y, d_tags, d_tags_c,
         d_tags_nested, d_role_a, d_role_c, d_a1b2, d_a1, d_b2, d_a1b3, d_none,
         d_John, d_x, d_x11, d_old, d_nested, d_list}

\* Candidates that are no mapping.
NonDocs == {JInt(5), JStr(s_x)}

\* The candidates the lists given to match_json are made of.
ListPool == {d_failed, d_passed, d_x11, d_old, JInt(5)}

SeqsUpTo(S, n) == UNION {[1..k -> S] : k \in 0..n}

\* match_json's json: one candidate, or a list of candidates.
Jsons == Docs \cup NonDocs \cup {JList(l) : l \in SeqsUpTo(ListPool, MaxDocs)}

ab_list == JList(<<JStr(s_a), JStr(s_b)>>)
l_a1_b2 == JList(<<Filter1(s_a, JInt(1)), Filter1(s_b, JInt(2))>>)
l_a1b2 == JList(<<Filter2(s_a, JInt(1), s_b, JInt(2))>>)
l_a1b2_b3 == JList(<<Filter2(s_a, JInt(1), s_b, JInt(2)), Filter1(s_b, JInt(3))>>)
l_age == JList(<<Filter1(s_age, Filter1(op_gt, JInt(10))), Filter1(s_name, JStr(s_x))>>)

\* The lists of filter mappings given to $and, $or and $nor.
FilterLists == {JList(<<>>), l_a1_b2, l_a1b2, l_a1b2_b3, l_age}

\* The mappings given to $not.
NotMaps == {Filter2(s_age, Filter1(op_gt, JInt(10)), s_name, JStr(s_x)),
            Filter1(s_a, JInt(1)), Filter2(s_a, JInt(1), s_b, JInt(2)), JMap(<<>>)}

\* The sub-filters given to $elemMatch.
ElemMaps == {Filter1(s_name, JStr(s_x)), Filter1(s_name, JStr(s_y))}

SizeFields == {s_errors, s_tags, s_items}
ExistsFields == {s_a, s_b, s_errors, s_a_b, s_x_y}
InFields == {s_tags, s_role}

\* match_json's mongo_filter.
Filters ==
    {JMap(<<>>),
     Filter2(s_success, JBool(FALSE), s_errors, Filter1(op_size, JInt(2))),
     Filter1(s_a, JInt(1)), Filter1(s_b, JInt(2)), Filter2(s_a, JInt(1), s_b, JInt(2)),
     Filter1(s_name, JStr(s_x)), Filter1(s_age, Filter1(op_gt, JInt(10))),
     Filter2(s_age, Filter1(op_gt, JInt(10)), s_name, JStr(s_x)),
     Filter1(s_age, Filter2(op_gt, JInt(1), op_lt, JInt(10))),
     Filter1(s_age, Filter1(op_gte, JInt(11))), Filter1(s_age, Filter1(op_lte, JInt(5))),
     Filter1(s_age, Filter1(op_ne, JInt(5))),
     Filter1(s_age, Filter1(op_bogus, JInt(5))),
     Filter1(s_a_b, JInt(1)),
     Filter1(s_name, Filter1(op_regex, JStr(s_caretJo))),
     Filter1(s_name, Filter1(op_regex, JStr(s_Jo))),
     Filter1(s_name, Filter1(op_regex, JStr(s_paren))),
     Filter2(s_name, Filter1(op_regex, JStr(s_Jo)), s_age, Filter1(op_gt, JInt(10)))}
    \cup {Filter1(f, Filter1(op_size, JInt(n))) : f \in SizeFields, n \in 0..2}
    \cup {Filter1(f, Filter1(op_exists, JBool(b))) : f \in ExistsFields, b \in BOOLEAN}
    \cup {Filter1(f, Filter1(op, ab_list)) : f \in InFields, op \in {op_in, op_nin}}
    \cup {Filter1(s_items, Filter1(op_elemMatch, S)) : S \in ElemMaps}
    \cup {Filter1(k, L) : k \in {key_and, key_or, key_nor}, L \in FilterLists}
    \cup {Filter1(key_not, M) : M \in NotMaps}

\* The caches earlier calls of the process can have left: the patterns that
\* compile.
Caches == SUBSET {JStr(s_caretJo), JStr(s_Jo)}

----------------------------------------------------------------------------
(* match_json *)

NoCall == [raise |-> "none", ret |-> None]

\* No call of match_json, of get_values, of flatten.
MatchIdle ==
    /\ json = None /\ mongo_filter = JMap(<<>>) /\ regexps = {} /\ pc = "idle"
    /\ data = <<>> /\ idx = 1 /\ fset = <<>> /\ ret = <<>> /\ err = "none"
GetValuesIdle ==
    gv_path = <<>> /\ gv_data = None /\ gv_out = NoCall /\ gv_pc = "idle"
FlattenIdle ==
    empty = <<>> /\ fl_items = <<>> /\ fl_ret = <<>> /\ fl_pc = "idle"

Init ==
    /\ json \in Jsons
    /\ mongo_filter \in Filters
    /\ regexps \in Caches
    /\ pc = "start"
    /\ data = <<>>
    /\ idx = 1
    /\ fset = <<>>
    /\ ret = <<>>
    /\ err = "none"
    /\ GetValuesIdle
    /\ FlattenIdle

\* match_json up to list(fset): make_filter_chain(json or [json], mongo_filter).
Call ==
    /\ pc = "start"
    /\ data' = IF IsList(json) THEN json.list ELSE <<json>>
    /\ pc' = "iter"
    /\ UNCHANGED <<json, mongo_filter, regexps, idx, fset, ret, err>>
    /\ UNCHANGED <<gv_vars, fl_vars>>

\* Advance with each candidate's exception caught: the candidate is dropped
\* and the iteration goes on.
Advance_Isolated(r) ==
    /\ regexps' = r.cache
    /\ idx' = idx + 1
    /\ fset' = IF r.raise = "none" /\ r.val THEN Append(fset, data[idx]) ELSE fset
    /\ UNCHANGED <<pc, err>>

\* One step of list() over the filter object, r the outcome of the lambda on
\* the next candidate. An exception leaves match_json, and the list built so
\* far (kept in fset here) is lost with it.
Advance(r) ==
    /\ regexps' = r.cache
    /\ \/ /\ r.raise # "none"
          /\ pc' = "raised"
          /\ err' = r.raise
          /\ UNCHANGED <<idx, fset>>
       \/ /\ r.raise = "none"
          /\ r.val
          /\ fset' = Append(fset, data[idx])
          /\ idx' = idx + 1
          /\ UNCHANGED <<pc, err>>
       \/ /\ r.raise = "none"
          /\ ~r.val
          /\ idx' = idx + 1
          /\ UNCHANGED <<pc, err, fset>>

FilterStep ==
    /\ pc = "iter"
    /\ idx <= Len(data)
    /\ Advance(make_filter_chain(mongo_filter, data[idx], regexps))
    /\ UNCHANGED <<json, mongo_filter, data, ret>>
    /\ UNCHANGED <<gv_vars, fl_vars>>

\* The filter object is exhausted: match_json returns the list.
Return ==
    /\ pc = "iter"
    /\ idx > Len(data)
    /\ ret' = <<fset>>
    /\ pc' = "done"
    /\ UNCHANGED <<json, mongo_filter, regexps, data, idx, fset, err>>
    /\ UNCHANGED <<gv_vars, fl_vars>>

Next == Call \/ FilterStep \/ Return

Spec == Init /\ [][Next]_vars

----------------------------------------------------------------------------
(* get_values, called on its own *)

Paths == {s_a, s_b, s_a_b, s_a_c, s_a_b_c, s_x_y, s_items_name, s_tags, s_errors}

GetValuesData == Docs \cup {d_mixed, d_deep, d_deeper, d_lists} \cup NonDocs

InitGetValues ==
    /\ gv_path \in Paths
    /\ gv_data \in GetValuesData
    /\ gv_out = NoCall
    /\ gv_pc = "call"
    /\ MatchIdle
    /\ FlattenIdle

GetValuesCall ==
    /\ gv_pc = "call"
    /\ gv_out' = get_values(gv_path, gv_data)
    /\ gv_pc' = "returned"
    /\ UNCHANGED <<gv_path, gv_data, match_vars, fl_vars>>

SpecGetValues == InitGetValues /\ [][GetValuesCall]_vars

----------------------------------------------------------------------------
(* flatten, called with items only, any number of times in one process *)

l_1 == <<JInt(1)>>
l_nested == <<JList(<<JInt(1), JList(<<JInt(2), JInt(3)>>)>>), JInt(4)>>
l_2_3 == <<JInt(2), JList(<<JInt(3)>>)>>
l_deep == <<JList(<<JList(<<JInt(4)>>)>>)>>
l_holes == <<JList(<<>>), JInt(5), JList(<<JList(<<>>)>>)>>

FlattenItems == {<<>>, l_1, l_nested, l_2_3, l_deep, l_holes}

InitFlatten ==
    /\ FlattenIdle
    /\ MatchIdle
    /\ GetValuesIdle

\* flatten(items): `empty` is the default's one list object, appended to in
\* place and returned.
Flatten ==
    /\ Len(empty) < MaxFlat
    /\ \E items \in FlattenItems :
          /\ fl_items' = items
          /\ empty' = flatten(items, empty)
          /\ fl_ret' = flatten(items, empty)
    /\ fl_pc' = "returned"
    /\ UNCHANGED <<match_vars, gv_vars>>

SpecFlatten == InitFlatten /\ [][Flatten]_vars

----------------------------------------------------------------------------
(* Properties *)

\* The entry (k, v) of a filter mapping holds for candidate d: its predicate
\* gen_lambda(k, v) returns true (an evaluation that raises does not hold).
Truth(r) == r.raise = "none" /\ r.val
EntryHolds(k, v, d) == Truth(gen_lambda(k, v, op_eq, d, {}))
AllEntriesHold(f, d) ==
    \A i \in 1..Len(Items(f)) : EntryHolds(Items(f)[i][1], Items(f)[i][2], d)
SomeEntryHolds(f, d) ==
    \E i \in 1..Len(Items(f)) : EntryHolds(Items(f)[i][1], Items(f)[i][2], d)

\* The filter f as a whole matches the one candidate d.
Matches(f, d) == Truth(make_filter_chain(f, d, {}))
Raises(f, d) == make_filter_chain(f, d, {}).raise # "none"

\* The filter is the single entry {key: value}.
SingleEntry(f) == Len(Items(f)) = 1
TheKey(f) == Items(f)[1][1]
TheValue(f) == Items(f)[1][2]
\* The filter is {field: {op: operand}}.
IsOperatorFilter(f, op) ==
    /\ SingleEntry(f) /\ IsMap(TheValue(f))
    /\ SingleEntry(TheValue(f)) /\ TheKey(TheValue(f)) = op
Operand(f) == TheValue(TheValue(f))

\* Every candidate is a mapping whose field k holds a list.
HoldsList(d, k) == IsDict(d) /\ k \in DOMAIN d.dict /\ IsList(d.dict[k])
AllHoldList(k) == \A i \in 1..Len(data) : HoldsList(data[i], k)
AllMappings == \A i \in 1..Len(data) : IsDict(data[i])

\* C1: match_json returns exactly the candidates for which every top-level
\* entry of the filter holds, in input order, each once and unchanged.
KeptByEveryEntry(d) == AllEntriesHold(mongo_filter, d)
C1_ReturnsEveryEntryMatches ==
    pc = "done" => ret = <<SelectSeq(data, KeptByEveryEntry)>>

\* C1 witness: a two-entry filter over two candidates kept the second only.
C1_Witness ==
    /\ pc = "done" /\ Len(Items(mongo_filter)) = 2
    /\ Len(data) = 2 /\ data[1] # data[2] /\ ret = <<<<data[2]>>>>

\* C2: {f: {"$size": n}} matches a document whose field f holds a list exactly
\* when that list has n elements, and the filter {"success": false, "errors":
\* {"$size": 2}} over the two documents of the example yields the first.
HasSize(d) == Len(d.dict[TheKey(mongo_filter)].list) = Operand(mongo_filter).int
C2_SizeCountsTheList ==
    /\ (pc = "done" /\ IsOperatorFilter(mongo_filter, op_size)
           /\ AllHoldList(TheKey(mongo_filter)))
        => ret = <<SelectSeq(data, HasSize)>>
    /\ (pc \in {"done", "raised"} /\ data = <<d_failed, d_passed>>
           /\ mongo_filter = Filter2(s_success, JBool(FALSE), s_errors,
                                     Filter1(op_size, JInt(2))))
        => ret = <<<<d_failed>>>>

\* C3: {f: {"$exists": true}} matches a mapping document iff get_values(f, D)
\* is a non-empty sequence, {f: {"$exists": false}} iff it is the empty one.
Resolved(path, d) == get_values(path, d)
ResolvesToSome(d) ==
    /\ IsList(Resolved(TheKey(mongo_filter), d).ret)
    /\ Resolved(TheKey(mongo_filter), d).ret.list # <<>>
ResolvesToNone(d) == Resolved(TheKey(mongo_filter), d).ret = JList(<<>>)
C3_ExistsFollowsResolver ==
    (pc = "done" /\ IsOperatorFilter(mongo_filter, op_exists) /\ AllMappings)
        => IF Operand(mongo_filter).bool
           THEN ret = <<SelectSeq(data, ResolvesToSome)>>
           ELSE ret = <<SelectSeq(data, ResolvesToNone)>>

\* C4: {f: {"$elemMatch": S}} matches a document whose field f holds a list
\* iff at least one element of the list satisfies all entries of S, S being
\* evaluated as a filter against that element.
SomeElementSatisfies(d) ==
    \E i \in 1..Len(d.dict[TheKey(mongo_filter)].list) :
        AllEntriesHold(Operand(mongo_filter), d.dict[TheKey(mongo_filter)].list[i])
C4_ElemMatchTestsElements ==
    (pc = "done" /\ IsOperatorFilter(mongo_filter, op_elemMatch)
        /\ IsMap(Operand(mongo_filter)) /\ AllHoldList(TheKey(mongo_filter)))
        => ret = <<SelectSeq(data, SomeElementSatisfies)>>

\* C5: for a mapping document and a non-empty dotted path get_values never
\* raises and returns a sequence; a missing part gives the empty sequence and
\* a path through a list concatenates its elements' results in order.
C5_GetValuesReturnsSequence ==
    (gv_pc = "returned" /\ IsDict(gv_data))
        => /\ gv_out.raise = "none"
           /\ IsList(gv_out.ret)
           /\ (gv_path = s_x_y /\ gv_data = d_a1) => gv_out.ret = JList(<<>>)
           /\ (gv_path = s_a_b /\ gv_data = d_list)
                 => gv_out.ret = JList(<<JInt(1), JInt(2)>>)

\* C6: where the path f resolves to at least one value, {f: {"$nin": S}}
\* matches exactly when {f: {"$in": S}} does not.
InFilter(f) == Filter1(TheKey(f), Filter1(op_in, Operand(f)))
C6_NinNegatesIn ==
    (pc = "done" /\ IsOperatorFilter(mongo_filter, op_nin) /\ Len(data) = 1
        /\ IsDict(data[1]) /\ ResolvesToSome(data[1]))
        => (ret = <<data>>) = ~Matches(InFilter(mongo_filter), data[1])

\* C7: {"$and": L} matches iff every entry of every mapping of L holds,
\* {"$or": L} iff some mapping of L has all of its entries hold, {"$nor": L}
\* iff {"$or": L} does not match.
IsCombinatorFilter(f, key) ==
    SingleEntry(f) /\ TheKey(f) = key /\ IsList(TheValue(f))
Mappings(f) == TheValue(f).list
EveryMappingHolds(d) ==
    \A i \in 1..Len(Mappings(mongo_filter)) : AllEntriesHold(Mappings(mongo_filter)[i], d)
SomeMappingHolds(d) ==
    \E i \in 1..Len(Mappings(mongo_filter)) : AllEntriesHold(Mappings(mongo_filter)[i], d)
NoMappingHolds(d) == ~SomeMappingHolds(d)
C7_AndOrNor ==
    pc = "done" =>
        /\ IsCombinatorFilter(mongo_filter, key_and)
              => ret = <<SelectSeq(data, EveryMappingHolds)>>
        /\ IsCombinatorFilter(mongo_filter, key_or)
              => ret = <<SelectSeq(data, SomeMappingHolds)>>
        /\ IsCombinatorFilter(mongo_filter, key_nor)
              => ret = <<SelectSeq(data, NoMappingHolds)>>

\* C7 witness: $or over [{"a": 1}, {"b": 2}] returned a document in which
\* only the first of the two holds.
C7_Witness ==
    /\ pc = "done" /\ mongo_filter = Filter1(key_or, l_a1_b2)
    /\ data = <<d_a1b3>> /\ ret = <<data>>

\* C8: {"$not": M} matches iff none of the entries of M, each compiled as a
\* field filter of its own, matches (not of any, not "not of all"); the $not
\* rule is taken before the rule for a mapping value.
NoEntryHolds(d) == ~SomeEntryHolds(TheValue(mongo_filter), d)
C8_NotIsNoneOf ==
    (pc = "done" /\ SingleEntry(mongo_filter) /\ TheKey(mongo_filter) = key_not
        /\ IsMap(TheValue(mongo_filter)))
        => ret = <<SelectSeq(data, NoEntryHolds)>>

\* C8 witness: {"$not": {"age": {"$gt": 10}, "name": "x"}} rejected a document
\* with name "x" and age 5, in which one of the two entries holds.
C8_Witness ==
    /\ pc = "done"
    /\ mongo_filter = Filter1(key_not, Filter2(s_age, Filter1(op_gt, JInt(10)),
                                               s_name, JStr(s_x)))
    /\ data = <<d_x>> /\ ret = <<<<>>>>

\* C9: every call flatten(items), after any number of earlier calls, returns
\* exactly the non-list leaves of items, depth first and left to right.
RECURSIVE Leaves(_)
Leaves(items) ==
    IF items = <<>> THEN <<>>
    ELSE (IF IsList(Head(items)) THEN Leaves(Head(items).list) ELSE <<Head(items)>>)
         \o Leaves(Tail(items))
C9_FlattenReturnsLeaves ==
    fl_pc = "returned" => fl_ret = Leaves(fl_items)

\* C10: if the filter raises on any one candidate, match_json raises that
\* error and returns nothing, whatever had matched before.
SomeCandidateRaises == \E i \in 1..Len(data) : Raises(mongo_filter, data[i])
FirstRaising == CHOOSE i \in 1..Len(data) :
    Raises(mongo_filter, data[i]) /\ \A j \in 1..(i - 1) : ~Raises(mongo_filter, data[j])
C10_NoPartialResult ==
    /\ (pc = "done" => ~SomeCandidateRaises)
    /\ (pc = "raised" =>
           /\ ret = <<>>
           /\ SomeCandidateRaises
           /\ err = make_filter_chain(mongo_filter, data[FirstRaising], {}).raise)
    /\ (pc \in {"start", "iter"} => ret = <<>>)

\* C10 witness: match_json raised after an earlier candidate had matched.
C10_Witness == pc = "raised" /\ Len(fset) > 0 /\ err \in {"JFError", "TypeError"}

====
